---- MODULE Spec2Model ----
(***************************************************************************)
(* A model of surepy's command line client (src/surepy/cli.py).            *)
(*                                                                         *)
(* One invocation of the program is one run of the click group callback    *)
(* `cli` followed by one subcommand handler.  Every handler is cut into    *)
(* steps at its remote calls and file operations; `pc` is the position of  *)
(* the invocation.  Remote calls answer nondeterministically (a value or   *)
(* an exception).  Python's Optional[str] is modelled as a sequence of     *)
(* length at most one, so that None and the string "None" stay apart.      *)
(***************************************************************************)
EXTENDS Integers, Sequences, FiniteSets, TLC

VARIABLES
    token_file,      \* content of ~/.surepy.token           (None: no file)
    old_token_file,  \* content of ~/.surepy.old_token       (None: no file)
    environ,         \* value of the TOKEN_ENV variable      (None: unset)
    argv,            \* the command line of the invocation
    pc,              \* position of the invocation
    ctx_obj,         \* click's ctx.obj
    token,           \* the handler's local `token`
    sp_auth_token,   \* auth_token handed to SurePetcare(...)
    sp_cred,         \* credential the facade ends up using
    calls,           \* remote calls issued so far, in order
    out,             \* what the handler reported to the operator
    flap,            \* locking: result of the first sp.flap()
    lock_control,    \* locking: the selected control call
    control_result,  \* locking/position: what the control call answered
    device,          \* locking: result of the confirming sp.flap()
    pet,             \* position: result of sp.pet()
    sp_pets,         \* sp.pets after refresh_entities (ids)
    sp_devices,      \* sp.devices after refresh_entities (ids)
    json_data,       \* report/notification: payload fetched
    table,           \* the rich Table being built
    pet_i,           \* report: index of the pet entry being rendered
    datapoints,      \* report: the current pet's datapoints (sorted in place)
    dp_i,            \* report: index of the next datapoint of datapoints[:25]
    now              \* last value read from the clock

fileVars == <<token_file, old_token_file, environ>>
sessVars == <<ctx_obj, token, sp_auth_token, sp_cred>>
ctlVars  == <<flap, lock_control, control_result, device, pet>>
fetchVars == <<sp_pets, sp_devices, json_data, table, pet_i, datapoints, dp_i, now>>
vars == <<token_file, old_token_file, environ, argv, pc, ctx_obj, token,
          sp_auth_token, sp_cred, calls, out, flap, lock_control,
          control_result, device, pet,
          sp_pets, sp_devices, json_data, table, pet_i, datapoints, dp_i, now>>

---------------------------------------------------------------------------
(* Optional strings and Python truthiness *)

None == <<>>

Some(s) == <<s>>

\* bool(x) for x an Optional[str]: None and "" are falsy
Truthy(o) == o # None /\ o[1] # ""

\* str(x) for x an Optional[str]
str(o) == IF o = None THEN "None" ELSE o[1]

Commands == {"token", "pets", "devices", "report", "notification", "locking", "position"}

\* the handlers that take a --token option
TokenCommands == Commands \ {"token"}

Modes == {"lock", "in", "out", "unlock"}

Positions == {"in", "out"}

\* values of the group's -t/--token and of the subcommand's -t/--token
UserTokens == {None, Some(""), Some("user-token")}

SubTokens == {None, Some(""), Some("sub-token")}

\* tokens the remote service hands out on login
ApiTokens == {"tok-a", "tok-b"}

\* contents the two token files can have
FileStates == {None, Some("")} \cup {Some(t) : t \in ApiTokens}

EnvStates == {None, Some(""), Some("env-token")}

Terminal == {"done", "exit0", "raised"}

---------------------------------------------------------------------------
(* Credential resolution *)

\* `token = token if token else ctx.obj.get("token", None)`
explicit_token(sub, ctx) == IF Truthy(sub) THEN sub ELSE ctx.token

\* the auth_token argument of SurePetcare(...): pets passes the Optional
\* through, every other handler wraps it in str()
auth_token_str(tok) == Some(str(tok))

auth_token_arg(cmd, tok) == IF cmd = "pets" THEN tok ELSE auth_token_str(tok)

\* environment variable first, then the primary token file
find_token == IF Truthy(environ) THEN environ
              ELSE IF Truthy(token_file) THEN token_file
              ELSE None

\* the credential the facade uses for a given auth_token
SurePetcare(auth_token) == IF Truthy(auth_token) THEN auth_token ELSE find_token

\* token_available(ctx): whether ctx.obj carries a token; when it does not
\* the function prints the three places checked.  No handler calls it.
token_available(ctx) == Truthy(ctx.token)

---------------------------------------------------------------------------
(* Initial values of the per-invocation state *)

NoTable == [made |-> FALSE, columns |-> <<>>, rows |-> <<>>]

NoPayload == [ok |-> FALSE, data |-> <<>>]

Now0 == 1000

LocalsInit ==
    /\ ctx_obj = [json |-> FALSE, token |-> None]
    /\ token = None
    /\ sp_auth_token = None
    /\ sp_cred = None
    /\ calls = <<>>
    /\ out = "nothing"
    /\ flap = "unset"
    /\ lock_control = None
    /\ control_result = "unset"
    /\ device = "unset"
    /\ pet = "unset"
    /\ sp_pets = {}
    /\ sp_devices = {}
    /\ json_data = NoPayload
    /\ table = NoTable
    /\ pet_i = 0
    /\ datapoints = <<>>
    /\ dp_i = 0

---------------------------------------------------------------------------
(* The click group callback *)

cli ==
    /\ pc = "cli"
    /\ ctx_obj' = [json |-> argv.json, token |-> argv.user_token]
    /\ pc' = argv.cmd
    /\ UNCHANGED <<fileVars, argv, token, sp_auth_token, sp_cred, calls, out,
                   ctlVars, fetchVars>>

\* the head of every handler but `token`: pick the token, build the facade
handler_init(cmd, next) ==
    /\ pc = cmd
    /\ token' = explicit_token(argv.token, ctx_obj)
    /\ sp_auth_token' = auth_token_arg(cmd, token')
    /\ sp_cred' = SurePetcare(sp_auth_token')
    /\ pc' = next
    /\ UNCHANGED <<fileVars, argv, ctx_obj, calls, out, ctlVars, fetchVars>>

pets_init == handler_init("pets", "pets_refresh")

devices_init == handler_init("devices", "devices_refresh")

report_init == handler_init("report", "report_refresh")

notification_init == handler_init("notification", "notification_get")

locking_init == handler_init("locking", "locking_flap")

position_init == handler_init("position", "position_pet")

---------------------------------------------------------------------------
(* token: log in and persist the token *)

token_init ==
    /\ pc = "token"
    /\ token' = None
    /\ pc' = "token_get_token"
    /\ UNCHANGED <<fileVars, argv, ctx_obj, sp_auth_token, sp_cred, calls, out,
                   ctlVars, fetchVars>>

\* a backup taken when the new token equals the stored one
must_backup_when_same(tok) == token_file # None /\ tok = token_file

\* a backup taken whenever the primary file exists
must_backup_always(tok) == token_file # None

\* the test that guards copyfile
must_backup(tok) == token_file # None /\ tok # token_file

\* `if token := sp.sac.get_token()`, then the test of line 147
token_get_token ==
    /\ pc = "token_get_token"
    /\ calls' = Append(calls, "get_token")
    /\ \/ \E t \in ApiTokens :
             /\ token' = Some(t)
             /\ pc' = IF must_backup(token') THEN "token_copyfile" ELSE "token_write_text"
       \/ \E t \in {None, Some("")} :
             /\ token' = t
             /\ pc' = "token_close_session"
       \/ /\ pc' = "raised"
          /\ UNCHANGED token
    /\ UNCHANGED <<fileVars, argv, ctx_obj, sp_auth_token, sp_cred, out,
                   ctlVars, fetchVars>>

token_copyfile ==
    /\ pc = "token_copyfile"
    /\ old_token_file' = token_file
    /\ pc' = "token_write_text"
    /\ UNCHANGED <<token_file, environ, argv, sessVars, calls, out, ctlVars, fetchVars>>

\* a write that puts the backup's content back into the primary file
token_write_text_promote ==
    /\ pc = "token_write_text"
    /\ token_file' = old_token_file
    /\ pc' = "token_close_session"
    /\ UNCHANGED <<old_token_file, environ, argv, sessVars, calls, out, ctlVars, fetchVars>>

\* `token_file.write_text(token, encoding="utf-8")`
token_write_text ==
    /\ pc = "token_write_text"
    /\ token_file' = token
    /\ pc' = "token_close_session"
    /\ UNCHANGED <<old_token_file, environ, argv, sessVars, calls, out, ctlVars, fetchVars>>

token_close_session ==
    /\ pc = "token_close_session"
    /\ calls' = Append(calls, "close_session")
    /\ out' = "token"
    /\ pc' = "done"
    /\ UNCHANGED <<fileVars, argv, sessVars, ctlVars, fetchVars>>

---------------------------------------------------------------------------
(* locking: lock control *)

\* the if/elif chain of lines 385-397: the control call bound to each mode
\* ("in" sets `state` only and leaves lock_control None)
select_lock_control(mode) ==
    CASE mode = "lock"   -> Some("lock")
      [] mode = "in"     -> None
      [] mode = "out"    -> Some("lock_out")
      [] mode = "unlock" -> Some("unlock")

\* what sp.flap() can answer: nothing, a Flap, a device of another type
FlapAnswers == {"None", "Flap", "Device"}

\* the type test left out
is_flap_any_device(f) == f # "None"

\* `(flap := await sp.flap(...)) and (type(flap) == Flap)`
is_flap(f) == f = "Flap"

locking_flap ==
    /\ pc = "locking_flap"
    /\ calls' = Append(calls, "flap")
    /\ \/ \E f \in FlapAnswers :
             /\ flap' = f
             /\ IF is_flap(f)
                  THEN /\ lock_control' = select_lock_control(argv.mode)
                       /\ pc' = IF lock_control' # None THEN "locking_lock_control"
                                                       ELSE "locking_close_session"
                  ELSE /\ lock_control' = None
                       /\ pc' = "done"
       \/ /\ pc' = "raised"
          /\ UNCHANGED <<flap, lock_control>>
    /\ UNCHANGED <<fileVars, argv, sessVars, out, control_result, device, pet, fetchVars>>

\* a control call that is issued once more after a falsy answer
locking_lock_control_retry ==
    /\ pc = "locking_lock_control"
    /\ calls' = Append(calls, lock_control[1])
    /\ \/ /\ control_result' = "True"
          /\ pc' = "locking_refetch"
          /\ UNCHANGED out
       \/ /\ control_result' = "False"
          /\ out' = "fishy"
          /\ pc' = IF Len(calls) < 2 THEN "locking_lock_control"
                                      ELSE "locking_close_session"
       \/ /\ pc' = "raised"
          /\ UNCHANGED <<out, control_result>>
    /\ UNCHANGED <<fileVars, argv, sessVars, flap, lock_control, device, pet, fetchVars>>

\* the `and` of line 404 without its short circuit: the second fetch is made
\* whatever the control call answered
locking_lock_control_lenient ==
    /\ pc = "locking_lock_control"
    /\ calls' = Append(calls, lock_control[1])
    /\ \/ /\ control_result' \in {"True", "False"}
          /\ pc' = "locking_refetch"
          /\ UNCHANGED out
       \/ /\ pc' = "raised"
          /\ UNCHANGED <<out, control_result>>
    /\ UNCHANGED <<fileVars, argv, sessVars, flap, lock_control, device, pet, fetchVars>>

\* `await lock_control(device_id=device_id)`: a falsy answer short-circuits
\* the `and`, so the else branch reports without a second fetch
locking_lock_control ==
    /\ pc = "locking_lock_control"
    /\ calls' = Append(calls, lock_control[1])
    /\ \/ /\ control_result' = "True"
          /\ pc' = "locking_refetch"
          /\ UNCHANGED out
       \/ /\ control_result' = "False"
          /\ out' = "fishy"
          /\ pc' = "locking_close_session"
       \/ /\ pc' = "raised"
          /\ UNCHANGED <<out, control_result>>
    /\ UNCHANGED <<fileVars, argv, sessVars, flap, lock_control, device, pet, fetchVars>>

\* `device := await sp.flap(flap_id=device_id)`
locking_refetch ==
    /\ pc = "locking_refetch"
    /\ calls' = Append(calls, "flap")
    /\ \/ \E d \in FlapAnswers :
             /\ device' = d
             /\ out' = IF d # "None" THEN "confirmed" ELSE "fishy"
             /\ pc' = "locking_close_session"
       \/ /\ pc' = "raised"
          /\ UNCHANGED <<out, device>>
    /\ UNCHANGED <<fileVars, argv, sessVars, flap, lock_control, control_result, pet,
                   fetchVars>>

locking_close_session ==
    /\ pc = "locking_close_session"
    /\ calls' = Append(calls, "close_session")
    /\ pc' = "done"
    /\ UNCHANGED <<fileVars, argv, sessVars, out, ctlVars, fetchVars>>

---------------------------------------------------------------------------
(* position: set pet position *)

PetAnswers == {"None", "Pet", "Other"}

\* `(pet := await sp.pet(...)) and (type(pet) == Pet)`
is_pet(p) == p = "Pet"

\* both choices of --position bind a Location, and both are truthy
select_location(position) ==
    CASE position = "in"  -> Some("INSIDE")
      [] position = "out" -> Some("OUTSIDE")

position_pet ==
    /\ pc = "position_pet"
    /\ calls' = Append(calls, "pet")
    /\ \/ \E p \in PetAnswers :
             /\ pet' = p
             /\ pc' = IF is_pet(p)
                        THEN IF select_location(argv.position) # None
                               THEN "position_set_position"
                               ELSE "position_close_session"
                        ELSE "done"
       \/ /\ pc' = "raised"
          /\ UNCHANGED pet
    /\ UNCHANGED <<fileVars, argv, sessVars, out, flap, lock_control, control_result,
                   device, fetchVars>>

\* a set_position whose truthy answer is followed by a second sp.pet()
position_set_position_refetch ==
    /\ pc = "position_set_position"
    /\ \/ /\ control_result' = "True"
          /\ calls' = calls \o <<"set_position", "pet">>
          /\ out' = "confirmed"
          /\ pc' = "position_close_session"
       \/ /\ control_result' = "False"
          /\ calls' = Append(calls, "set_position")
          /\ out' = "fishy"
          /\ pc' = "position_close_session"
       \/ /\ pc' = "raised"
          /\ calls' = Append(calls, "set_position")
          /\ UNCHANGED <<out, control_result>>
    /\ UNCHANGED <<fileVars, argv, sessVars, flap, lock_control, device, pet, fetchVars>>

\* `if await pet.set_position(location)`: the answer alone picks the message
position_set_position ==
    /\ pc = "position_set_position"
    /\ calls' = Append(calls, "set_position")
    /\ \/ /\ control_result' = "True"
          /\ out' = "confirmed"
          /\ pc' = "position_close_session"
       \/ /\ control_result' = "False"
          /\ out' = "fishy"
          /\ pc' = "position_close_session"
       \/ /\ pc' = "raised"
          /\ UNCHANGED <<out, control_result>>
    /\ UNCHANGED <<fileVars, argv, sessVars, flap, lock_control, device, pet, fetchVars>>

position_close_session ==
    /\ pc = "position_close_session"
    /\ calls' = Append(calls, "close_session")
    /\ pc' = "done"
    /\ UNCHANGED <<fileVars, argv, sessVars, out, ctlVars, fetchVars>>

---------------------------------------------------------------------------
(* What the remote service can answer to the fetch commands *)

\* the --json switch of json_response: print the payload and exit(0);
\* the session is closed only when the caller handed `sp` over
json_response(given_sp, next) ==
    IF ctx_obj.json
      THEN /\ calls' = IF given_sp THEN Append(calls, "close_session") ELSE calls
           /\ out' = "raw"
           /\ pc' = "exit0"
      ELSE /\ pc' = next
           /\ UNCHANGED <<calls, out>>

MaxPets == 2

MaxPoints == 26

\* the slice datapoints[:25]
Cap == 25

\* lengths of a pet's datapoint list: short ones and ones around the slice
PointCounts == {0, 1, 2} \cup (Cap .. MaxPoints)

HouseholdPets == 1 .. MaxPets

DeviceSets == {{}, {1}}

PetName(id) == "pet-" \o ToString(id)

DeviceName(id) == "device-" \o ToString(id)

Max(S) == CHOOSE x \in S : \A y \in S : y <= x

Min2(a, b) == IF a < b THEN a ELSE b

\* The shapes of a report payload: how the start times of a pet's datapoints
\* are laid out (all different and shuffled, or few values with many ties),
\* whether the most recent ones are still open, and whether a pet without
\* movements carries a null movement or an empty datapoint list.
Shapes == {[stride |-> 7, mod |-> 29, active |-> TRUE,  null |-> TRUE],
           [stride |-> 1, mod |-> 9,  active |-> TRUE,  null |-> FALSE],
           [stride |-> 1, mod |-> 29, active |-> FALSE, null |-> FALSE]}

FromOf(i, shape) == 30 * ((i * shape.stride) % shape.mod)

DeviceRef(i) == IF i % 3 = 0 THEN None ELSE IF i % 3 = 1 THEN Some(1) ELSE Some(9)

\* one movement datapoint; "active" is TRUE when the key is present, and
\* then "to" and "duration" are not read by the handler
Datapoint(i, n, shape) ==
    LET from == FromOf(i, shape)
        open == shape.active /\ from = Max({FromOf(j, shape) : j \in 1..n})
    IN  [from |-> from,
         active |-> open,
         to |-> IF open THEN from ELSE from + 45,
         duration |-> IF open THEN 0 ELSE 45,
         entry_device_id |-> DeviceRef(i),
         exit_device_id |-> DeviceRef(i + 1)]

PetEntry(id, n, shape) ==
    [pet_id |-> id,
     movement |-> IF n = 0 /\ shape.null
                    THEN None
                    ELSE Some([datapoints |-> [i \in 1..n |-> Datapoint(i, n, shape)]])]

ReportPayloads ==
    UNION {{[ok |-> TRUE, data |-> [k \in 1..m |-> PetEntry(k, ns[k], shape)]] :
               ns \in [1..m -> PointCounts], shape \in Shapes} : m \in 0..MaxPets}

\* notification entries are dicts: sequences of <<key, value>> in insertion order
NotificationEntries == {<< <<"a", "1">>, <<"b", "2">> >>,
                        << <<"b", "3">>, <<"c", "4">> >>,
                        << <<"c", "5">>, <<"a", "6">> >>}

NotificationPayloads ==
    {NoPayload}
    \cup {[ok |-> TRUE, data |-> d] :
            d \in {<<>>} \cup {<<e>> : e \in NotificationEntries}
                  \cup {<<e, f>> : e, f \in NotificationEntries}}

---------------------------------------------------------------------------
(* pets and devices *)

refresh_entities(next) ==
    /\ calls' = Append(calls, "refresh_entities")
    /\ \/ /\ sp_pets' = HouseholdPets
          /\ \E ds \in DeviceSets : sp_devices' = ds
          /\ pc' = next
       \/ /\ pc' = "raised"
          /\ UNCHANGED <<sp_pets, sp_devices>>

pets_refresh ==
    /\ pc = "pets_refresh"
    /\ refresh_entities("pets_json_response")
    /\ UNCHANGED <<fileVars, argv, sessVars, out, ctlVars,
                   json_data, table, pet_i, datapoints, dp_i, now>>

\* `await json_response(sp.pets, ctx)`: no sp given
pets_json_response ==
    /\ pc = "pets_json_response"
    /\ json_response(FALSE, "pets_table")
    /\ UNCHANGED <<fileVars, argv, sessVars, ctlVars, fetchVars>>

pets_table ==
    /\ pc = "pets_table"
    /\ table' = [made |-> TRUE,
                 columns |-> <<"Name", "Where", "Change A", "Change B", "Lunched",
                               "ID", "Household">>,
                 rows |-> [i \in 1..Cardinality(sp_pets) |-> <<PetName(i), ToString(i)>>]]
    /\ out' = "table"
    /\ pc' = "done"
    /\ UNCHANGED <<fileVars, argv, sessVars, calls, ctlVars,
                   sp_pets, sp_devices, json_data, pet_i, datapoints, dp_i, now>>

devices_refresh ==
    /\ pc = "devices_refresh"
    /\ refresh_entities("devices_json_response")
    /\ UNCHANGED <<fileVars, argv, sessVars, out, ctlVars,
                   json_data, table, pet_i, datapoints, dp_i, now>>

\* `await json_response(sp.devices, ctx)`: no sp given
devices_json_response ==
    /\ pc = "devices_json_response"
    /\ json_response(FALSE, "devices_table")
    /\ UNCHANGED <<fileVars, argv, sessVars, ctlVars, fetchVars>>

devices_table ==
    /\ pc = "devices_table"
    /\ table' = [made |-> TRUE,
                 columns |-> <<"ID", "Household", "Name", "Type", "Serial">>,
                 rows |-> [i \in 1..Cardinality(sp_devices) |-> <<ToString(i), DeviceName(i)>>]]
    /\ out' = "table"
    /\ pc' = "done"
    /\ UNCHANGED <<fileVars, argv, sessVars, calls, ctlVars,
                   sp_pets, sp_devices, json_data, pet_i, datapoints, dp_i, now>>

---------------------------------------------------------------------------
(* report *)

MaxTicks == 1

SecPerMin == 60

\* strftime("%d/%m %H:%M") of an instant given in seconds: the minute it lies in
strftime(t) == ToString(t \div SecPerMin)

\* surepy.natural_time: seconds rendered in the largest fitting unit
natural_time(d) ==
    IF d < 60 THEN ToString(d) \o "s"
    ELSE IF d < 3600 THEN ToString(d \div 60) \o "m " \o ToString(d % 60) \o "s"
    ELSE ToString(d \div 3600) \o "h " \o ToString((d % 3600) \div 60) \o "m"

\* the sort key `datetime.fromisoformat(x["from"])`
sort_key(dp) == dp.from

\* where list.sort(reverse=True) puts x into an already sorted list: behind
\* every element whose key is not smaller (the sort is stable)
insert_pos(sorted, x) ==
    Cardinality({j \in 1..Len(sorted) : sort_key(sorted[j]) >= sort_key(x)})

RECURSIVE sort_reverse(_, _)
sort_reverse(dps, acc) ==
    IF dps = <<>> THEN acc
    ELSE LET x == Head(dps)
             k == insert_pos(acc, x)
         IN  sort_reverse(Tail(dps),
                          SubSeq(acc, 1, k) \o <<x>> \o SubSeq(acc, k + 1, Len(acc)))

\* `datapoints.sort(key=..., reverse=True)`
sort_datapoints(dps) == sort_reverse(dps, <<>>)

\* no slice at all
slice_len_uncapped(dps) == Len(dps)

\* number of elements of `datapoints[:25]`
slice_len(dps) == Min2(Len(dps), Cap)

\* `"active" in datapoint`
is_active(dp) == dp.active

\* the "to" cell: to_time is None for an active datapoint
to_cell(dp) == IF ~is_active(dp) THEN strftime(dp.to) ELSE "-"

\* the duration of the payload kept for an active datapoint
duration_of_payload(dp, clock) == dp.duration

\* datapoint["duration"] after lines 300-303, `clock` being datetime.now()
duration_of(dp, clock) == IF is_active(dp) THEN clock - dp.from ELSE dp.duration

\* the name of the referenced device taken without looking it up
device_cell_unchecked(ref) == DeviceName(IF ref = None THEN 0 ELSE ref[1])

\* `sp.devices.get(datapoint.get(key, 0), None)`, then the name or a dash
device_cell(ref) ==
    LET id == IF ref = None THEN 0 ELSE ref[1]
    IN  IF id \in sp_devices THEN DeviceName(id) ELSE "-"

add_row(t, row) == [t EXCEPT !.rows = Append(@, row)]

report_refresh ==
    /\ pc = "report_refresh"
    /\ refresh_entities("report_get_report")
    /\ UNCHANGED <<fileVars, argv, sessVars, out, ctlVars,
                   json_data, table, pet_i, datapoints, dp_i, now>>

report_get_report ==
    /\ pc = "report_get_report"
    /\ calls' = Append(calls, "get_report")
    /\ \/ /\ \E payload \in ReportPayloads : json_data' = payload
          /\ pc' = "report_json_response"
       \/ /\ pc' = "raised"
          /\ UNCHANGED json_data
    /\ UNCHANGED <<fileVars, argv, sessVars, out, ctlVars,
                   sp_pets, sp_devices, table, pet_i, datapoints, dp_i, now>>

\* `await json_response(json_data, ctx, sp=sp)`
report_json_response ==
    /\ pc = "report_json_response"
    /\ json_response(TRUE, "report_table")
    /\ UNCHANGED <<fileVars, argv, sessVars, ctlVars, fetchVars>>

\* `if data := json_data.get("data")`: the table and its six columns
report_table ==
    /\ pc = "report_table"
    /\ IF json_data.data # <<>>
         THEN /\ table' = [made |-> TRUE,
                           columns |-> <<"pet", "from", "to", "duration",
                                         "entry_device", "exit_device">>,
                           rows |-> <<>>]
              /\ pet_i' = 1
              /\ pc' = "report_pet"
         ELSE /\ pc' = "done"
              /\ UNCHANGED <<table, pet_i>>
    /\ UNCHANGED <<fileVars, argv, sessVars, calls, out, ctlVars,
                   sp_pets, sp_devices, json_data, datapoints, dp_i, now>>

\* the datapoint list of a pet entry when both walrus tests of line 287 pass
movement_datapoints(entry) ==
    IF entry.movement # None /\ entry.movement[1].datapoints # <<>>
      THEN entry.movement[1].datapoints
      ELSE <<>>

\* the loop over pets left at the first pet without movements
report_pet_stop_at_empty ==
    /\ pc = "report_pet"
    /\ IF pet_i > Len(json_data.data)
            \/ movement_datapoints(json_data.data[pet_i]) = <<>>
         THEN /\ out' = "table"
              /\ pc' = "done"
              /\ UNCHANGED <<pet_i, datapoints, dp_i>>
         ELSE /\ datapoints' = sort_datapoints(movement_datapoints(json_data.data[pet_i]))
              /\ dp_i' = 1
              /\ pc' = "report_row"
              /\ UNCHANGED <<pet_i, out>>
    /\ UNCHANGED <<fileVars, argv, sessVars, calls, ctlVars,
                   sp_pets, sp_devices, json_data, table, now>>

\* head of the loop over pets: sort the pet's datapoints in place, or skip
\* the pet, or print the table behind the last pet
report_pet ==
    /\ pc = "report_pet"
    /\ IF pet_i > Len(json_data.data)
         THEN /\ out' = "table"
              /\ pc' = "done"
              /\ UNCHANGED <<pet_i, datapoints, dp_i>>
         ELSE LET dps == movement_datapoints(json_data.data[pet_i])
              IN  IF dps # <<>>
                    THEN /\ datapoints' = sort_datapoints(dps)
                         /\ dp_i' = 1
                         /\ pc' = "report_row"
                         /\ UNCHANGED <<pet_i, out>>
                    ELSE /\ pet_i' = pet_i + 1
                         /\ UNCHANGED <<pc, datapoints, dp_i, out>>
    /\ UNCHANGED <<fileVars, argv, sessVars, calls, ctlVars,
                   sp_pets, sp_devices, json_data, table, now>>

\* one pass of the loop over datapoints[:25]; the clock is read for an
\* active datapoint only, and it may have advanced since the last reading
report_row ==
    /\ pc = "report_row"
    /\ LET dp == datapoints[dp_i]
       IN  /\ IF is_active(dp)
                THEN \E clock \in now .. Min2(now + 1, Now0 + MaxTicks) : now' = clock
                ELSE UNCHANGED now
           /\ datapoints' = [datapoints EXCEPT ![dp_i].duration = duration_of(dp, now')]
           /\ table' = add_row(table,
                  [pet |-> PetName(json_data.data[pet_i].pet_id),
                   from |-> strftime(dp.from),
                   to |-> to_cell(dp),
                   duration |-> natural_time(datapoints'[dp_i].duration),
                   entry_device |-> device_cell(dp.entry_device_id),
                   exit_device |-> device_cell(dp.exit_device_id)])
    /\ IF dp_i < slice_len(datapoints)
         THEN /\ dp_i' = dp_i + 1
              /\ UNCHANGED <<pc, pet_i>>
         ELSE /\ pet_i' = pet_i + 1
              /\ pc' = "report_pet"
              /\ UNCHANGED dp_i
    /\ UNCHANGED <<fileVars, argv, sessVars, calls, out, ctlVars,
                   sp_pets, sp_devices, json_data>>

---------------------------------------------------------------------------
(* notification *)

Keys(entry) == {entry[i][1] : i \in 1..Len(entry)}

\* the orders in which a set can be iterated
Orders(S) == {f \in [1..Cardinality(S) -> S] : \A i, j \in 1..Cardinality(S) :
                                                  i # j => f[i] # f[j]}

\* `[str(e) for e in entry.values()]`
values_row(entry) == [i \in 1..Len(entry) |-> entry[i][2]]

\* `json_data = await sp.get_notification() or None`
notification_get ==
    /\ pc = "notification_get"
    /\ calls' = Append(calls, "get_notification")
    /\ \/ \E payload \in NotificationPayloads :
             /\ json_data' = payload
             /\ pc' = IF payload.ok THEN "notification_json_response" ELSE "done"
       \/ /\ pc' = "raised"
          /\ UNCHANGED json_data
    /\ UNCHANGED <<fileVars, argv, sessVars, out, ctlVars,
                   sp_pets, sp_devices, table, pet_i, datapoints, dp_i, now>>

\* `await json_response(json_data, ctx)`: no sp given
notification_json_response ==
    /\ pc = "notification_json_response"
    /\ json_response(FALSE, "notification_table")
    /\ UNCHANGED <<fileVars, argv, sessVars, ctlVars, fetchVars>>

\* the columns are the union of the keys in set order; every row is the
\* entry's own values in the entry's own order
notification_table ==
    /\ pc = "notification_table"
    /\ IF json_data.data # <<>>
         THEN /\ \E cols \in Orders(UNION {Keys(json_data.data[i]) :
                                              i \in 1..Len(json_data.data)}) :
                    table' = [made |-> TRUE,
                              columns |-> cols,
                              rows |-> [i \in 1..Len(json_data.data) |->
                                           values_row(json_data.data[i])]]
              /\ out' = "table"
         ELSE UNCHANGED <<table, out>>
    /\ pc' = "done"
    /\ UNCHANGED <<fileVars, argv, sessVars, calls, ctlVars,
                   sp_pets, sp_devices, json_data, pet_i, datapoints, dp_i, now>>

---------------------------------------------------------------------------
(* Invocations *)

ArgvCred ==
    {a \in [json : {FALSE}, user_token : UserTokens, cmd : Commands,
            token : SubTokens, mode : {"lock"}, position : {"in"}] :
        a.cmd = "token" => a.token = None}

ArgvControl ==
    {a \in [json : {FALSE}, user_token : {None}, cmd : {"locking", "position"},
            token : {None, Some("sub-token")}, mode : Modes, position : Positions] :
        /\ a.cmd = "locking" => a.position = "in"
        /\ a.cmd = "position" => a.mode = "lock"}

ArgvFetch ==
    [json : BOOLEAN, user_token : {None},
     cmd : {"pets", "devices", "report", "notification"},
     token : {Some("sub-token")}, mode : {"lock"}, position : {"in"}]

\* `cli(obj={})`: the operator runs the program again; the files stay
main ==
    /\ pc \in Terminal
    /\ \E a \in ArgvCred : argv' = a
    /\ pc' = "cli"
    /\ ctx_obj' = [json |-> FALSE, token |-> None]
    /\ token' = None
    /\ sp_auth_token' = None
    /\ sp_cred' = None
    /\ calls' = <<>>
    /\ out' = "nothing"
    /\ flap' = "unset"
    /\ lock_control' = None
    /\ control_result' = "unset"
    /\ device' = "unset"
    /\ pet' = "unset"
    /\ sp_pets' = {}
    /\ sp_devices' = {}
    /\ json_data' = NoPayload
    /\ table' = NoTable
    /\ pet_i' = 0
    /\ datapoints' = <<>>
    /\ dp_i' = 0
    /\ UNCHANGED <<fileVars, now>>

\* credentials: every handler up to the facade, and the token handler whole
InitCred ==
    /\ token_file \in FileStates
    /\ old_token_file \in FileStates
    /\ environ \in EnvStates
    /\ argv \in ArgvCred
    /\ pc = "cli"
    /\ now = Now0
    /\ LocalsInit

NextCred ==
    \/ cli
    \/ pets_init
    \/ devices_init
    \/ report_init
    \/ notification_init
    \/ locking_init
    \/ position_init
    \/ token_init
    \/ token_get_token
    \/ token_copyfile
    \/ token_write_text
    \/ token_close_session
    \/ main

SpecCred == InitCred /\ [][NextCred]_vars

\* the two control handlers
InitControl ==
    /\ token_file = None
    /\ old_token_file = None
    /\ environ = None
    /\ argv \in ArgvControl
    /\ pc = "cli"
    /\ now = Now0
    /\ LocalsInit

NextControl ==
    \/ cli
    \/ locking_init
    \/ locking_flap
    \/ locking_lock_control
    \/ locking_refetch
    \/ locking_close_session
    \/ position_init
    \/ position_pet
    \/ position_set_position
    \/ position_close_session

SpecControl == InitControl /\ [][NextControl]_vars

\* the four fetch handlers
InitFetch ==
    /\ token_file = None
    /\ old_token_file = None
    /\ environ = None
    /\ argv \in ArgvFetch
    /\ pc = "cli"
    /\ now = Now0
    /\ LocalsInit

NextFetch ==
    \/ cli
    \/ pets_init
    \/ pets_refresh
    \/ pets_json_response
    \/ pets_table
    \/ devices_init
    \/ devices_refresh
    \/ devices_json_response
    \/ devices_table
    \/ report_init
    \/ report_refresh
    \/ report_get_report
    \/ report_json_response
    \/ report_table
    \/ report_pet
    \/ report_row
    \/ notification_init
    \/ notification_get
    \/ notification_json_response
    \/ notification_table

SpecFetch == InitFetch /\ [][NextFetch]_vars

\* every command run once to its end over token files that exist
ArgvFiles ==
    ArgvControl \cup ArgvFetch
       \cup [json : {FALSE}, user_token : {None}, cmd : {"token"},
             token : {None}, mode : {"lock"}, position : {"in"}]

InitFiles ==
    /\ argv \in ArgvFiles
    /\ IF argv.cmd = "token"
         THEN /\ token_file \in FileStates
              /\ old_token_file \in FileStates
         ELSE /\ token_file = Some("tok-a")
              /\ old_token_file = Some("tok-b")
    /\ environ = None
    /\ pc = "cli"
    /\ now = Now0
    /\ LocalsInit

NextFiles ==
    \/ NextControl
    \/ NextFetch
    \/ token_init
    \/ token_get_token
    \/ token_copyfile
    \/ token_write_text
    \/ token_close_session

SpecFiles == InitFiles /\ [][NextFiles]_vars

\* the whole program
Init == InitCred \/ InitControl \/ InitFetch

Next == NextCred \/ NextControl \/ NextFetch

Spec == Init /\ [][Next]_vars

---------------------------------------------------------------------------
(* Properties *)

CloseCount == Cardinality({i \in 1..Len(calls) : calls[i] = "close_session"})

Mutating == {"lock", "lock_in", "lock_out", "unlock", "set_position"}

MutatingCalls == SelectSeq(calls, LAMBDA c : c \in Mutating)

\* the facade has been built by a handler that takes a token
Constructed == argv.cmd \in TokenCommands /\ pc \notin ({"cli"} \cup Commands)

\* the explicit credential of the invocation: the subcommand's flag, else the group's
ExplicitSource == IF Truthy(argv.token) THEN argv.token ELSE argv.user_token

HighestPriority ==
    IF Truthy(ExplicitSource) THEN ExplicitSource
    ELSE IF Truthy(environ) THEN environ
    ELSE IF Truthy(token_file) THEN token_file
    ELSE None

\* C1: for every combination of explicit, environment and primary-file
\* credential, the credential in use is the highest-priority non-empty
\* source, in the order explicit > environment variable > primary file.
C1_ResolvesHighestPriority ==
    (Constructed /\ (Truthy(ExplicitSource) \/ Truthy(environ) \/ Truthy(token_file)))
        => sp_cred = HighestPriority

\* C2: whenever the token is persisted while the primary file exists with
\* another content, the copy step is taken first, the backup then holds what
\* the primary file held before the call, and the primary file gets the new
\* token while the backup keeps that content.
C2_BackupHoldsPrevious ==
    [][/\ (pc = "token_get_token" /\ Truthy(token') /\ token_file # None
              /\ token_file # token')
          => pc' = "token_copyfile"
       /\ pc = "token_copyfile"
          => (old_token_file' = token_file /\ token_file' = token_file
                /\ pc' = "token_write_text")
       /\ (pc = "token_write_text" /\ token_file # None /\ token_file # token)
          => (old_token_file = token_file /\ token_file' = token
                /\ old_token_file' = old_token_file)]_vars

C2_Witness ==
    /\ pc = "token_write_text"
    /\ token_file \notin {None, token}
    /\ old_token_file = token_file

\* C3: the backup file is modified by the copy step alone, and the copy step
\* is entered neither when the primary file already holds the new token nor
\* when the primary file does not exist.
C3_BackupUntouched ==
    [][/\ old_token_file' # old_token_file => pc = "token_copyfile"
       /\ pc' = "token_copyfile" => (token_file # None /\ token_file # token')
       /\ (pc = "token_get_token" /\ Truthy(token')
              /\ (token_file = None \/ token_file = token'))
          => pc' = "token_write_text"]_vars

C3_Witness ==
    /\ pc = "token_write_text"
    /\ token_file = token
    /\ old_token_file \notin {None, token_file}

\* C4: when the first fetch yields no device, or a device that is no flap
\* (no pet), the invocation ends without reporting a control result and no
\* mutating call has been issued, whatever the requested mode or location.
C4_NotFoundNoMutation ==
    (flap \in {"None", "Device"} \/ pet \in {"None", "Other"})
        => (pc = "done" /\ out = "nothing" /\ MutatingCalls = <<>>)

C4_Witness ==
    /\ pc = "done"
    /\ argv.mode = "out"
    /\ flap = "None"
    /\ calls = <<"flap">>

\* the control call the specification assigns to each mode
ModeCall(mode) ==
    CASE mode = "lock"   -> "lock"
      [] mode = "in"     -> "lock_in"
      [] mode = "out"    -> "lock_out"
      [] mode = "unlock" -> "unlock"

\* C5: for an existing flap every requested mode issues its own control
\* call, and no other one.
C5_EveryModeCalls ==
    (argv.cmd = "locking" /\ flap = "Flap"
        /\ pc \in {"locking_refetch", "locking_close_session", "done"})
        => MutatingCalls = <<ModeCall(argv.mode)>>

\* C6: every completed invocation of locking and of position has closed the
\* session exactly once.
C6_ClosedOnce ==
    (argv.cmd \in {"locking", "position"} /\ pc = "done") => CloseCount = 1

\* C7: when the control call reported success and the confirming fetch
\* failed the ambiguous outcome is reported, and a control call that itself
\* reported failure is never reported with that same outcome.
C7_AmbiguousDistinct ==
    (argv.cmd = "locking" /\ pc \in {"locking_close_session", "done"})
        => /\ (control_result = "True" /\ device = "None") => out = "fishy"
           /\ control_result = "False" => out # "fishy"

\* C8: in raw-output mode every fetch command ends without building a table
\* and after exactly one close_session call.
C8_RawClosesOnce ==
    (argv.cmd \in {"pets", "devices", "report", "notification"} /\ ctx_obj.json
        /\ pc \in {"done", "exit0"})
        => (~table.made /\ CloseCount = 1)

\* number of datapoints a pet entry of the payload carries
EntryCount(e) == IF e.movement = None THEN 0 ELSE Len(e.movement[1].datapoints)

RECURSIVE RowsOfFirst(_)
RowsOfFirst(k) ==
    IF k = 0 THEN 0 ELSE RowsOfFirst(k - 1) + Min2(EntryCount(json_data.data[k]), Cap)

Occurrences(dps, t) == Cardinality({i \in 1..Len(dps) : dps[i].from = t})

\* C9: behind every pet the table holds min(n, 25) more rows, so the total
\* is the sum of the pets' own caps; the rows of a pet are the first
\* min(n, 25) of its datapoints ordered by start descending.
C9_RowsPerPet ==
    (argv.cmd = "report" /\ table.made /\ pc \in {"report_pet", "done"})
        => /\ Len(table.rows) = RowsOfFirst(pet_i - 1)
           /\ (pet_i > 1 /\ EntryCount(json_data.data[pet_i - 1]) > 0)
              => LET e == json_data.data[pet_i - 1]
                     orig == e.movement[1].datapoints
                     n == Len(orig)
                     k == Min2(n, Cap)
                     off == Len(table.rows) - k
                 IN  /\ Len(datapoints) = n
                     /\ \A i \in 1..n :
                           Occurrences(datapoints, orig[i].from)
                               = Occurrences(orig, orig[i].from)
                     /\ \A a, b \in 1..n :
                           a < b => datapoints[a].from >= datapoints[b].from
                     /\ \A j \in 1..k :
                           /\ table.rows[off + j].from = strftime(datapoints[j].from)
                           /\ table.rows[off + j].pet = PetName(e.pet_id)

C9_Witness ==
    /\ argv.cmd = "report"
    /\ pc = "done"
    /\ out = "table"
    /\ Len(json_data.data) = 2
    /\ \A k \in 1..2 : EntryCount(json_data.data[k]) > Cap
    /\ Len(table.rows) = 2 * Cap

\* C10: the row of an active datapoint shows the dash as its end and the
\* time read from the clock minus its start as its duration; the row of a
\* closed datapoint shows its end and the duration of the payload; a row is
\* added in both cases.
C10_ActiveDuration ==
    [][pc = "report_row"
       => LET dp == datapoints[dp_i]
              row == table'.rows[Len(table'.rows)]
          IN  /\ Len(table'.rows) = Len(table.rows) + 1
              /\ pc' # "raised"
              /\ IF dp.active
                   THEN /\ row.to = "-"
                        /\ datapoints'[dp_i].duration = now' - dp.from
                        /\ row.duration = natural_time(now' - dp.from)
                   ELSE /\ row.to = strftime(dp.to)
                        /\ datapoints'[dp_i].duration = dp.duration
                        /\ row.duration = natural_time(dp.duration)]_vars

C10_Witness ==
    /\ argv.cmd = "report"
    /\ pc = "done"
    /\ \E i, j \in 1..Len(table.rows) : table.rows[i].to = "-" /\ table.rows[j].to # "-"

\* the value an entry holds under a key, empty when the entry lacks the key
EntryValue(entry, key) ==
    IF \E i \in 1..Len(entry) : entry[i][1] = key
      THEN entry[CHOOSE i \in 1..Len(entry) : entry[i][1] = key][2]
      ELSE ""

\* C11: the columns of the notification table are the union of the entries'
\* field names, and every row has one cell per column, holding the entry's
\* value of that column's field, or the empty value when the entry lacks it.
C11_RowsAligned ==
    (argv.cmd = "notification" /\ table.made /\ pc = "done")
        => /\ {table.columns[c] : c \in 1..Len(table.columns)}
                 = UNION {Keys(json_data.data[i]) : i \in 1..Len(json_data.data)}
           /\ Len(table.rows) = Len(json_data.data)
           /\ \A i \in 1..Len(table.rows) :
                 /\ Len(table.rows[i]) = Len(table.columns)
                 /\ \A c \in 1..Len(table.columns) :
                       table.rows[i][c] = EntryValue(json_data.data[i], table.columns[c])

NoSource == ~Truthy(ExplicitSource) /\ ~Truthy(environ) /\ ~Truthy(token_file)

\* C13: when no credential source yields a value, the invocation issues no
\* remote call and ends having shown the operator the three sources checked.
C13_NoCredentialStops ==
    (argv.cmd \in TokenCommands /\ NoSource)
        => /\ calls = <<>>
           /\ pc \in Terminal => out = "no token found"

\* C14: an invocation that has used the remote session has closed it when it
\* ends, on every exit path: a rendered table, raw output, an error raised
\* by a remote call.
C14_ClosedOnEveryExit ==
    (pc \in Terminal /\ calls # <<>>) => calls[Len(calls)] = "close_session"

\* the cell of a device reference against the devices fetched: the name of a
\* device of the set, the dash for a missing or unknown id
ResolvedDevice(ref) ==
    IF ref # None /\ ref[1] \in sp_devices THEN DeviceName(ref[1]) ELSE "-"

\* C15: while the rows are built no remote call is issued and the device set
\* stays the one fetched once at the start; every row's entry and exit cell
\* is the name of the device in that set or the dash, and no step raises.
C15_DevicesResolvedLocally ==
    [][(pc \in {"report_table", "report_pet", "report_row"})
       => (/\ calls' = calls
           /\ sp_devices' = sp_devices
           /\ Len(SelectSeq(calls, LAMBDA c : c = "refresh_entities")) = 1
           /\ pc' # "raised"
           /\ (pc = "report_row"
                 => (LET dp == datapoints[dp_i]
                         row == table'.rows[Len(table'.rows)]
                     IN  /\ row.entry_device = ResolvedDevice(dp.entry_device_id)
                         /\ row.exit_device = ResolvedDevice(dp.exit_device_id))))]_vars

C15_Witness ==
    /\ argv.cmd = "report"
    /\ pc = "done"
    /\ sp_devices = {1}
    /\ \E i \in 1..Len(table.rows) :
          /\ table.rows[i].entry_device = "-"
          /\ table.rows[i].exit_device = DeviceName(1)
    /\ \E i \in 1..Len(table.rows) :
          /\ table.rows[i].entry_device = DeviceName(1)
          /\ table.rows[i].exit_device = "-"

\* a locking invocation whose control call has answered and whose if/else of
\* lines 404-411 has reported
LockingReported ==
    /\ argv.cmd = "locking"
    /\ pc \in {"locking_close_session", "done"}
    /\ control_result # "unset"

\* C16 as stated: the second fetch is consulted whatever the control call
\* answered, and success is reported exactly when it returned a device
C16_RefetchAloneDecides ==
    LockingReported
       => /\ device # "unset"
          /\ out = "confirmed" <=> device # "None"

\* C16: success is reported exactly when the control call answered truthy
\* and the second fetch returned a device; after a falsy answer no second
\* fetch is made and the ambiguous outcome is reported
C16_ControlAndRefetchDecide ==
    LockingReported
       => /\ out = "confirmed" <=> (control_result = "True" /\ device \notin {"unset", "None"})
          /\ control_result = "False" => (device = "unset" /\ out = "fishy")
          /\ control_result = "True" => device # "unset"

C16_Witness ==
    /\ argv.cmd = "locking"
    /\ pc = "done"
    /\ control_result = "False"
    /\ device = "unset"
    /\ out = "fishy"
    /\ calls = <<"flap", ModeCall(argv.mode), "close_session">>

\* the remote calls of the invocation without the closing of the session
RemoteCalls == SelectSeq(calls, LAMBDA c : c # "close_session")

IsPrefix(s, t) == Len(s) <= Len(t) /\ \A i \in 1..Len(s) : s[i] = t[i]

\* C17: the remote calls of a locking invocation are a prefix of: first
\* fetch, control call, second fetch; the control call follows a first fetch
\* that returned a flap, the second fetch follows a control call that
\* answered truthy, and there is at most one control call
C17_CallOrder ==
    (argv.cmd = "locking" /\ pc \notin {"cli", "locking"})
       => /\ IsPrefix(RemoteCalls, <<"flap", ModeCall(argv.mode), "flap">>)
          /\ Len(RemoteCalls) >= 2 => flap = "Flap"
          /\ Len(RemoteCalls) >= 3 => control_result = "True"
          /\ control_result = "False" => Len(RemoteCalls) = 2
          /\ Len(MutatingCalls) <= 1

C17_Witness ==
    /\ argv.cmd = "locking"
    /\ pc = "done"
    /\ flap = "Flap"
    /\ control_result = "True"
    /\ calls = <<"flap", ModeCall(argv.mode), "flap", "close_session">>

\* a position invocation that has reported success
PositionConfirmed == argv.cmd = "position" /\ out = "confirmed"

\* C18 as stated: success is reported only after the pet has been fetched
\* again, after the set_position call
C18_ConfirmedAfterRefetch ==
    PositionConfirmed
       => \E i, j \in 1..Len(calls) :
             i < j /\ calls[i] = "set_position" /\ calls[j] = "pet"

\* C18: success is reported exactly when set_position answered truthy, and
\* the pet is fetched once, before the set_position call, never after it
C18_ConfirmedByAcknowledgment ==
    (argv.cmd = "position" /\ pc \notin {"cli", "position"})
       => /\ IsPrefix(RemoteCalls, <<"pet", "set_position">>)
          /\ out = "confirmed" <=> control_result = "True"
          /\ out = "fishy" <=> control_result = "False"
          /\ Len(RemoteCalls) = 2 => pet = "Pet"

C18_Witness ==
    /\ PositionConfirmed
    /\ pc = "done"
    /\ control_result = "True"
    /\ calls = <<"pet", "set_position", "close_session">>

\* C19: once the rows of a pet are built, the durations of any two of its
\* active datapoints count from one and the same instant: duration + start
\* is the same for both
C19_OneReferenceInstant ==
    (argv.cmd = "report" /\ pc \in {"report_pet", "done"} /\ datapoints # <<>>)
       => \A i, j \in 1..slice_len(datapoints) :
             (is_active(datapoints[i]) /\ is_active(datapoints[j]))
                => datapoints[i].duration + datapoints[i].from
                     = datapoints[j].duration + datapoints[j].from

\* C20: the two token files change only in the token command, only once a
\* token was obtained, and only in its two file steps; the primary file
\* only ever receives the token just obtained, the backup only the primary
\* file's content; an obtained token is written, and written once; every
\* step of every other command, and of a token command that obtained no
\* token, leaves both files as they are
C20_FilesChangeOnlyInPersist ==
    [][/\ (token_file' # token_file \/ old_token_file' # old_token_file)
          => (/\ argv.cmd = "token"
              /\ Truthy(token)
              /\ pc \in {"token_copyfile", "token_write_text"})
       /\ (token_file' # token_file)
          => (pc = "token_write_text" /\ token_file' = token)
       /\ (old_token_file' # old_token_file)
          => (pc = "token_copyfile" /\ old_token_file' = token_file
                /\ token_file' = token_file)
       /\ (pc = "token_get_token" /\ pc' # "raised")
          => (pc' \in {"token_copyfile", "token_write_text"} <=> Truthy(token'))
       /\ (pc = "token_copyfile") => pc' = "token_write_text"
       /\ (pc = "token_write_text")
          => (token_file' = token /\ pc' = "token_close_session")
       /\ (pc = "token_close_session") => pc' = "done"]_vars

C20_Witness ==
    /\ argv.cmd = "token"
    /\ pc = "done"
    /\ Truthy(token)
    /\ token_file = token
    /\ old_token_file \notin {None, token}

====
